---------------------------- MODULE Spec2Model ----------------------------
(***************************************************************************)
(* Model of the BCM2835 MMC host driver, drivers/mmc/host/bcm2835-mmc.c.   *)
(*                                                                         *)
(* Spec     the command/data state machine: submit, interrupt handler,     *)
(*          DMA callback, watchdog timer, completion tasklet, removal.     *)
(* FairSpec Spec with the fairness of the timer and the tasklet.           *)
(* SpecIrq  the interrupt handler, its loop taken one iteration a step.    *)
(* SpecBarrier  Spec for a build with a PIO/DMA threshold above 0.         *)
(* SpecCmd  the dispatch of the commands of a request, the inhibit bits    *)
(*          read by each poll being an input.                              *)
(* SpecSdio the card interrupt: interrupt handler, threaded handler and    *)
(*          bcm2835_mmc_enable_sdio_irq.                                   *)
(* SpecReg  bcm2835_mmc_writew on SDHCI_TRANSFER_MODE and SDHCI_COMMAND.   *)
(* SpecClk  the divisor selection of bcm2835_mmc_set_clock.                *)
(* SpecPio  the PIO block pack/unpack loops.                               *)
(* SpecTm   bcm2835_mmc_set_transfer_mode as a function of its inputs.     *)
(***************************************************************************)
EXTENDS Integers, Sequences, FiniteSets, TLC

VARIABLES
    host,      \* struct bcm2835_host: the fields the state machine uses
    mrq,       \* the request object (struct mmc_request) last submitted
    hw,        \* controller/DMA-engine side and the record of what was issued
    ctx,       \* position of each execution context
    irq,       \* the interrupt handler's position and loop budget
    done,      \* done[id]: number of mmc_request_done calls for request id
    clk,       \* SpecClk: inputs and results of bcm2835_mmc_set_clock
    pio,       \* SpecPio: one block moved through SDHCI_BUFFER
    tm,        \* SpecTm: inputs and result of bcm2835_mmc_set_transfer_mode
    disp,      \* SpecCmd: the inhibit bits read at each command dispatch
    sdio,      \* SpecSdio: the card interrupt and its threaded handler
    reg        \* SpecReg: the word of SDHCI_TRANSFER_MODE and SDHCI_COMMAND

vars == <<host, mrq, hw, ctx, irq, done, clk, pio, tm, disp, sdio, reg>>

(***************************************************************************)
(* Bounds of the model.                                                    *)
(***************************************************************************)
MaxReq == 2          \* requests submitted in one behaviour
MaxBlocks == 2       \* block count of a data transfer
MaxIrqBits == 2      \* status bits set together in one read of INT_STATUS
MaxClk == 40         \* small values of max_clk and of the requested clock
MaxClkMul == 3       \* multiples of the maximum divisor tried as max_clk
MaxBlkSz == 5        \* block size in bytes of the PIO model
MaxBarrier == 1      \* largest PIO/DMA threshold the driver is built with
MaxCardIrqs == 3     \* card interrupts taken in one behaviour of SpecSdio

(***************************************************************************)
(* bcm2835_mmc_set_clock: divisor selection.                               *)
(***************************************************************************)
SDHCI_MAX_DIV_SPEC_300 == 2046

\* for (div = 2; div < SDHCI_MAX_DIV_SPEC_300; div += 2)
\*     if ((host->max_clk / div) <= clock) break;
\* The value of div after the loop.  The iterations are taken sixteen at a
\* time: the first of them that breaks, if any, else the next sixteen; with
\* no break the loop ends at div = SDHCI_MAX_DIV_SPEC_300.
RECURSIVE DivLoop(_, _, _)
DivLoop(max_clk, clock, div) ==
    IF div >= SDHCI_MAX_DIV_SPEC_300 THEN SDHCI_MAX_DIV_SPEC_300
    ELSE LET brk == {d \in {div + 2 * i : i \in 0..15} :
                        d < SDHCI_MAX_DIV_SPEC_300 /\ (max_clk \div d) <= clock}
         IN IF brk /= {} THEN CHOOSE d \in brk : \A e \in brk : d <= e
            ELSE DivLoop(max_clk, clock, div + 32)

\* mutant: the loop breaks on the first divisor at all
ClockDivisorNoSearch(max_clk, clock) ==
    IF max_clk <= clock THEN 1 ELSE 2

ClockDivisor(max_clk, clock) ==
    IF max_clk <= clock THEN 1 ELSE DivLoop(max_clk, clock, 2)

ValidDivisors == {1} \cup {d \in 2..SDHCI_MAX_DIV_SPEC_300 : d % 2 = 0}

MaxClkValues ==
    (1..MaxClk)
    \cup {SDHCI_MAX_DIV_SPEC_300 * m + r : m \in 1..MaxClkMul, r \in {-1, 0, 1}}
ClockValues == 0..(MaxClk \div 2)

\* clk while bcm2835_mmc_set_clock is not the entry point under study
ClkOff == [pc |-> "off", max_clk |-> 0, clock |-> 0, real_div |-> 0,
           actual_clock |-> 0]

set_clock ==
    /\ clk.pc = "call"
    /\ IF clk.clock = 0
       THEN clk' = [clk EXCEPT !.pc = "ret", !.actual_clock = 0]
       ELSE LET div == ClockDivisor(clk.max_clk, clk.clock)
            IN clk' = [clk EXCEPT !.pc = "ret", !.real_div = div,
                         !.actual_clock =
                             IF div /= 0 THEN (clk.max_clk * 1) \div div ELSE 0]
    /\ UNCHANGED <<host, mrq, hw, ctx, irq, done, pio, tm, disp,
                 sdio, reg>>

(***************************************************************************)
(* PIO block transfer through the 32-bit buffer register.                  *)
(***************************************************************************)
ByteVals == {0, 1, 255}

\* A u32 is the record [hi, lo] of its 16-bit halves.
U32Zero == [hi |-> 0, lo |-> 0]

\* scratch | ((u32)b << (chunk * 8)), the byte lane being clear
OrByte(w, b, chunk) ==
    IF chunk = 0 THEN [w EXCEPT !.lo = @ + b]
    ELSE IF chunk = 1 THEN [w EXCEPT !.lo = @ + b * 256]
    ELSE IF chunk = 2 THEN [w EXCEPT !.hi = @ + b]
    ELSE [w EXCEPT !.hi = @ + b * 256]

\* scratch & 0xFF and scratch >> 8
LowByte(w) == w.lo % 256
Shr8(w) == [hi |-> w.hi \div 256, lo |-> (w.lo \div 256) + (w.hi % 256) * 256]

\* mutant: the partial trailing word is never flushed
RECURSIVE WriteBytesNoTail(_, _, _, _)
WriteBytesNoTail(buf, len, blksize, st) ==
    IF len = 0 THEN st
    ELSE LET scratch == OrByte(st.scratch, Head(buf), st.chunk)
             chunk == st.chunk + 1
             flush == (chunk = 4)
         IN WriteBytesNoTail(Tail(buf), len - 1, blksize,
                IF flush
                THEN [chunk |-> 0, scratch |-> U32Zero,
                      words |-> Append(st.words, scratch)]
                ELSE [st EXCEPT !.chunk = chunk, !.scratch = scratch])

\* st = [chunk, scratch, words]; the inner "while (len)" loop of the write path
RECURSIVE WriteBytes(_, _, _, _)
WriteBytes(buf, len, blksize, st) ==
    IF len = 0 THEN st
    ELSE LET scratch == OrByte(st.scratch, Head(buf), st.chunk)
             chunk == st.chunk + 1
             flush == (chunk = 4) \/ (len - 1 = 0 /\ blksize = 0)
         IN WriteBytes(Tail(buf), len - 1, blksize,
                IF flush
                THEN [chunk |-> 0, scratch |-> U32Zero,
                      words |-> Append(st.words, scratch)]
                ELSE [st EXCEPT !.chunk = chunk, !.scratch = scratch])

Min(a, b) == IF a <= b THEN a ELSE b

\* the outer "while (blksize)" loop: sg is the list of regions still ahead
RECURSIVE WriteBlockLoop(_, _, _)
WriteBlockLoop(sg, blksize, st) ==
    IF blksize = 0 THEN st
    ELSE LET len == Min(Len(Head(sg)), blksize)
         IN WriteBlockLoop(Tail(sg), blksize - len,
                WriteBytes(Head(sg), len, blksize - len, st))

write_block_pio(sg, blksz) ==
    WriteBlockLoop(sg, blksz,
        [chunk |-> 0, scratch |-> U32Zero, words |-> <<>>])

\* st = [chunk, scratch, fifo, out, reads]; inner loop of the read path
RECURSIVE ReadBytes(_, _)
ReadBytes(len, st) ==
    IF len = 0 THEN st
    ELSE LET fetch == st.chunk = 0
             word == IF st.fifo = <<>> THEN U32Zero ELSE Head(st.fifo)
             scratch == IF fetch THEN word ELSE st.scratch
             chunk == IF fetch THEN 4 ELSE st.chunk
         IN ReadBytes(len - 1,
                [chunk |-> chunk - 1,
                 scratch |-> Shr8(scratch),
                 fifo |-> IF fetch /\ st.fifo /= <<>> THEN Tail(st.fifo)
                          ELSE st.fifo,
                 out |-> Append(st.out, LowByte(scratch)),
                 reads |-> st.reads + (IF fetch THEN 1 ELSE 0)])

RECURSIVE ReadBlockLoop(_, _, _)
ReadBlockLoop(lens, blksize, st) ==
    IF blksize = 0 THEN st
    ELSE LET len == Min(Head(lens), blksize)
         IN ReadBlockLoop(Tail(lens), blksize - len, ReadBytes(len, st))

read_block_pio(lens, blksz, fifo) ==
    ReadBlockLoop(lens, blksz,
        [chunk |-> 0, scratch |-> U32Zero, fifo |-> fifo, out |-> <<>>,
         reads |-> 0])

\* the regions of a buffer b cut after the positions in cuts
RECURSIVE Regions(_, _, _)
Regions(b, cuts, from) ==
    IF from > Len(b) THEN <<>>
    ELSE LET later == {c \in cuts : c >= from}
             to == IF later = {} THEN Len(b)
                   ELSE CHOOSE c \in later : \A d \in later : c <= d
         IN <<SubSeq(b, from, to)>> \o Regions(b, cuts, to + 1)

Flatten(sg) ==
    LET RECURSIVE F(_)
        F(s) == IF s = <<>> THEN <<>> ELSE Head(s) \o F(Tail(s))
    IN F(sg)

SeqsOf(S, n) == [1..n -> S]

PioOff == [pc |-> "off", blksz |-> 0, sg |-> <<>>, words |-> <<>>,
           out |-> <<>>, reads |-> 0]

PioWriteBlock ==
    /\ pio.pc = "write"
    /\ pio' = [pio EXCEPT !.pc = "read",
                 !.words = write_block_pio(pio.sg, pio.blksz).words]
    /\ UNCHANGED <<host, mrq, hw, ctx, irq, done, clk, tm, disp,
                 sdio, reg>>

PioReadBlock ==
    /\ pio.pc = "read"
    /\ LET lens == [i \in 1..Len(pio.sg) |-> Len(pio.sg[i])]
           r == read_block_pio(lens, pio.blksz, pio.words)
       IN pio' = [pio EXCEPT !.pc = "done", !.out = r.out, !.reads = r.reads]
    /\ UNCHANGED <<host, mrq, hw, ctx, irq, done, clk, tm, disp,
                 sdio, reg>>

(***************************************************************************)
(* bcm2835_mmc_set_transfer_mode.                                          *)
(*   a.data, a.multi_op, a.blocks, a.read: the command and its data        *)
(*   a.sbc: the request has a block-count sub-command (mrq->sbc)           *)
(*   a.flags: host->flags; a.hw_mode: the transfer-mode half read back     *)
(***************************************************************************)
TrnsBits == {"BLK_CNT_EN", "MULTI", "AUTO_CMD12", "AUTO_CMD23", "READ", "DMA"}

\* mutant: the DMA bit is set for every data command
TransferModeDmaAlways(a) ==
    IF ~a.data
    THEN [mode |-> a.hw_mode \ {"AUTO_CMD12", "AUTO_CMD23"}, arg2 |-> FALSE]
    ELSE LET multi == a.multi_op \/ a.blocks > 1
             ac12 == multi /\ ~a.sbc /\ "AUTO_CMD12" \in a.flags
             ac23 == multi /\ ~ac12 /\ a.sbc /\ "AUTO_CMD23" \in a.flags
         IN [mode |-> {"BLK_CNT_EN", "DMA"}
                      \cup (IF multi THEN {"MULTI"} ELSE {})
                      \cup (IF ac12 THEN {"AUTO_CMD12"} ELSE {})
                      \cup (IF ac23 THEN {"AUTO_CMD23"} ELSE {})
                      \cup (IF a.read THEN {"READ"} ELSE {}),
             arg2 |-> ac23]

\* mutant: both automatic commands are tried, not one or the other
TransferModeBothAuto(a) ==
    IF ~a.data
    THEN [mode |-> a.hw_mode \ {"AUTO_CMD12", "AUTO_CMD23"}, arg2 |-> FALSE]
    ELSE LET multi == a.multi_op \/ a.blocks > 1
             ac12 == multi /\ "AUTO_CMD12" \in a.flags
             ac23 == multi /\ a.sbc /\ "AUTO_CMD23" \in a.flags
         IN [mode |-> {"BLK_CNT_EN"}
                      \cup (IF multi THEN {"MULTI"} ELSE {})
                      \cup (IF ac12 THEN {"AUTO_CMD12"} ELSE {})
                      \cup (IF ac23 THEN {"AUTO_CMD23"} ELSE {})
                      \cup (IF a.read THEN {"READ"} ELSE {})
                      \cup (IF "REQ_USE_DMA" \in a.flags THEN {"DMA"} ELSE {}),
             arg2 |-> ac23]

TransferMode(a) ==
    IF ~a.data
    THEN [mode |-> a.hw_mode \ {"AUTO_CMD12", "AUTO_CMD23"}, arg2 |-> FALSE]
    ELSE LET multi == a.multi_op \/ a.blocks > 1
             ac12 == multi /\ ~a.sbc /\ "AUTO_CMD12" \in a.flags
             ac23 == multi /\ ~ac12 /\ a.sbc /\ "AUTO_CMD23" \in a.flags
         IN [mode |-> {"BLK_CNT_EN"}
                      \cup (IF multi THEN {"MULTI"} ELSE {})
                      \cup (IF ac12 THEN {"AUTO_CMD12"} ELSE {})
                      \cup (IF ac23 THEN {"AUTO_CMD23"} ELSE {})
                      \cup (IF a.read THEN {"READ"} ELSE {})
                      \cup (IF "REQ_USE_DMA" \in a.flags THEN {"DMA"} ELSE {}),
             arg2 |-> ac23]

TmOff == [pc |-> "off"]
DispOff == [pc |-> "off"]
SdioOff == [pc |-> "off"]
RegOff == [pc |-> "off"]

set_transfer_mode ==
    /\ tm.pc = "call"
    /\ LET r == TransferMode(tm)
       IN tm' = [tm EXCEPT !.pc = "ret", !.mode = r.mode, !.arg2 = r.arg2]
    /\ UNCHANGED <<host, mrq, hw, ctx, irq, done, clk, pio, disp,
                 sdio, reg>>


(***************************************************************************)
(* The command/data state machine.                                         *)
(*                                                                         *)
(* The handlers are operators on S = [host, mrq, hw]; an action applies    *)
(* the operator of its entry point.  Every entry point but the interrupt   *)
(* handler holds host.lock for one step; the interrupt handler holds it    *)
(* over the iterations of its loop.                                        *)
(***************************************************************************)
NoErr == "0"
ETIMEDOUT == "ETIMEDOUT"
EILSEQ == "EILSEQ"
EIO == "EIO"
EINVAL == "EINVAL"
ENOMEDIUM == "ENOMEDIUM"

\* the threshold when CONFIG_MMC_BCM2835_PIO_DMA_BARRIER is not given, and the
\* values it is built with here
PIO_DMA_BARRIER == 0
BarrierValues == PIO_DMA_BARRIER..MaxBarrier
MaxLoops == 16
BlkSz == 512

\* host->flags as set by bcm2835_mmc_add_host
HostFlags == {"AUTO_CMD23"}

Cmds == {"sbc", "cmd", "stop"}

\* response shapes: MMC_RSP_PRESENT / MMC_RSP_136 / MMC_RSP_BUSY
RspBusy(f) == f \in {"busy", "longbusy"}
Rsp136(f) == f \in {"long", "longbusy"}
RspPresent(f) == f /= "none"

\* The requests the caller may submit:
\*   a command without data (short, busy, or the unsupported 136-bit + busy);
\*   a single-block transfer, read or write, and a read whose command asks
\*   for the unsupported response shape; the bus-test read;
\*   a multi-block transfer with its stop command (CMD12, R1b), open-ended
\*   or with the block-count sub-command (CMD23).
Shape(d, r, b, st, sb, o, fc) ==
    [data |-> d, read |-> r, blocks |-> b, stop |-> st, sbc |-> sb, opc |-> o,
     fcmd |-> fc, fstop |-> IF st THEN "busy" ELSE "none"]

ReqShapes ==
    {Shape(FALSE, FALSE, 0, FALSE, FALSE, "single", f) :
        f \in {"short", "busy", "longbusy"}}
    \cup {Shape(TRUE, r, 1, FALSE, FALSE, "single", "short") : r \in BOOLEAN}
    \cup {Shape(TRUE, TRUE, 1, FALSE, FALSE, "single", "longbusy"),
          Shape(TRUE, TRUE, 1, FALSE, FALSE, "bustest", "short")}
    \cup {Shape(TRUE, r, b, TRUE, sb, "multi", "short") :
            r \in BOOLEAN, b \in 2..MaxBlocks, sb \in BOOLEAN}

NoErrs == [c \in Cmds \cup {"data"} |-> NoErr]

NewRequest(id, sh) ==
    [id |-> id, data |-> sh.data, read |-> sh.read, blocks |-> sh.blocks,
     blksz |-> BlkSz, stop |-> sh.stop, sbc |-> sh.sbc, opc |-> sh.opc,
     flags |-> [sbc |-> "short", cmd |-> sh.fcmd, stop |-> sh.fstop],
     err |-> NoErrs, bytes_xfered |-> 0]

NoRequest ==
    [id |-> 0, data |-> FALSE, read |-> FALSE, blocks |-> 0, blksz |-> BlkSz,
     stop |-> FALSE, sbc |-> FALSE, opc |-> "single",
     flags |-> [sbc |-> "short", cmd |-> "short", stop |-> "none"],
     err |-> NoErrs, bytes_xfered |-> 0]

\* what is recorded about the request in progress:
\*   rst             the resets issued since an error was last recorded
\*   wr              the registers written, by command
\*   inhibit_failed  the commands whose inhibit poll ran out
\*   stop_disp       how the stop command came to be dispatched
\*   wd_stop         the watchdog expired on data that has a stop command
\*   stop_resolved   the stop command got a response or an error
\*   maps, unmaps    the calls of dma_map_sg that mapped the list of the
\*                   request's data, the calls of dma_unmap_sg on it
\*   fd              the call of finish_data: by whom ("irq", "dma", "timer",
\*                   "cmd" for finish_command); for the interrupt handler
\*                   and the DMA callback, whether the main command was
\*                   still the current command waiting for its response;
\*                   for data without error, whether SDHCI_INT_DATA_END had
\*                   been seen
\*   poll            the bits of SDHCI_PRESENT_STATE polled, by command
\*   seq             the last dispatch that passed the poll: its command and
\*                   what it did, in order: the registers written,
\*                   "mod_timer", "host->cmd" and "host->use_dma" assigned
\*   mode            the value written to SDHCI_TRANSFER_MODE for the data
\*   rewr            the commands written to SDHCI_COMMAND a second time
\*   warn_cmd        the commands on whose dispatch WARN_ON(host->cmd) fired
NoFinish == [by |-> "no", cmd_pending |-> FALSE, data_end |-> FALSE]
NoSeq == [c |-> "NULL", ev |-> <<>>]
NoRecord ==
    [rst |-> {}, wr |-> {}, inhibit_failed |-> {}, stop_disp |-> "no",
     stop_resolved |-> FALSE, wd_stop |-> FALSE, fd |-> NoFinish,
     maps |-> 0, unmaps |-> 0, poll |-> {}, seq |-> NoSeq, mode |-> {},
     rewr |-> {}, warn_cmd |-> {}]

\* cmd->data: only the main command carries the data
CmdData(S, c) == c = "cmd" /\ S.mrq.data

\* hw.stale: the handlers that were pending when the request was submitted
\* and have not run since: the watchdog handler started by an expiry
\* ("timer"), the tasklet scheduled ("tasklet") or picked up ("run"), the
\* DMA engine's callback ("dma").  A tasklet_schedule on behalf of the
\* request in progress makes the scheduled tasklet its own.
tasklet_schedule(S) ==
    [S EXCEPT !.host.tasklet = TRUE, !.hw.stale = @ \ {"tasklet"}]

\* cmd->error = e / data->error = e, with e an error
SetError(S, c, e) ==
    [S EXCEPT !.mrq.err[c] = e,
              !.hw.rec.rst = {},
              !.hw.rec.stop_resolved = @ \/ (c = "stop")]

\* bcm2835_mmc_reset(host, SDHCI_RESET_CMD) / (host, SDHCI_RESET_DATA)
bcm2835_mmc_reset(S, m) == [S EXCEPT !.hw.rec.rst = @ \cup {m}]

WriteReg(S, c, r) ==
    [S EXCEPT !.hw.rec =
        LET rec == @
        IN [rec EXCEPT !.wr = @ \cup {<<c, r>>},
                       !.rewr = IF r = "COMMAND" /\ <<c, r>> \in rec.wr
                                THEN @ \cup {c} ELSE @,
                       !.seq.ev = Append(@, r)]]

\* a step of the dispatch that is not a register write
Event(S, e) == [S EXCEPT !.hw.rec.seq.ev = Append(@, e)]

PioIrqs == {"DATA_AVAIL", "SPACE_AVAIL"}
DmaIrqs == {"DMA_END", "ADMA_ERROR"}

bcm2835_mmc_set_transfer_irqs(S) ==
    Event(Event([S EXCEPT !.host.ier =
                    IF S.host.use_dma THEN (@ \ PioIrqs) \cup DmaIrqs
                    ELSE (@ \ DmaIrqs) \cup PioIrqs],
                "INT_ENABLE"), "SIGNAL_ENABLE")

bcm2835_mmc_prepare_data(S, c) ==
    LET S1 == IF CmdData(S, c) \/ RspBusy(S.mrq.flags[c])
              THEN WriteReg(S, c, "TIMEOUT_CONTROL") ELSE S
    IN IF ~CmdData(S, c) THEN S1
       ELSE LET S2 == [S1 EXCEPT
                          !.host.data = TRUE,
                          !.host.data_early = FALSE,
                          !.mrq.bytes_xfered = 0,
                          !.host.blocks =
                              IF "REQ_USE_DMA" \notin S.host.flags
                              THEN S.mrq.blocks ELSE @,
                          !.host.use_dma =
                              S.host.have_dma /\ S.mrq.blocks > S.host.barrier]
            IN WriteReg(WriteReg(bcm2835_mmc_set_transfer_irqs(
                                     Event(S2, "host->use_dma")),
                                 c, "BLOCK_SIZE"), c, "BLOCK_COUNT")

\* bcm2835_mmc_set_transfer_mode in the dispatch: the registers it writes
\* and, for a data command, the value (for a command without data the value
\* depends on what the register held: the subject of SpecTm)
bcm2835_mmc_set_transfer_mode(S, c) ==
    LET r == TransferMode([data |-> CmdData(S, c),
                           multi_op |-> S.mrq.opc = "multi",
                           blocks |-> S.mrq.blocks,
                           sbc |-> S.mrq.sbc,
                           read |-> S.mrq.read,
                           flags |-> S.host.flags,
                           hw_mode |-> {}])
        S1 == IF r.arg2 THEN WriteReg(S, c, "ARGUMENT2") ELSE S
    IN [WriteReg(S1, c, "TRANSFER_MODE") EXCEPT
           !.hw.rec.mode = IF CmdData(S, c) THEN r.mode ELSE @]

\* mutant: the stop command waits for the data line like any busy command
InhibitMaskNoStopRule(S, c) ==
    {"CMD_INHIBIT"}
        \cup (IF CmdData(S, c) \/ RspBusy(S.mrq.flags[c])
              THEN {"DATA_INHIBIT"} ELSE {})

\* send_command: the bits of SDHCI_PRESENT_STATE the dispatch of c waits for
InhibitMask(S, c) ==
    LET mask == {"CMD_INHIBIT"}
                    \cup (IF CmdData(S, c) \/ RspBusy(S.mrq.flags[c])
                          THEN {"DATA_INHIBIT"} ELSE {})
    IN IF S.mrq.data /\ S.mrq.stop /\ c = "stop"
       THEN mask \ {"DATA_INHIBIT"} ELSE mask

\* mutant: the stop command is dispatched without the poll
InhibitPollNotForStop(S, c) ==
    IF c = "stop" THEN S
    ELSE [S EXCEPT !.hw.rec.poll = @ \cup {<<c, b>> : b \in InhibitMask(S, c)}]

\* the poll of SDHCI_PRESENT_STATE against the mask, recorded
InhibitPoll(S, c) ==
    [S EXCEPT !.hw.rec.poll = @ \cup {<<c, b>> : b \in InhibitMask(S, c)}]

\* WARN_ON(host->cmd) at the entry of send_command
WarnOnCmd(S, c) ==
    IF S.host.cmd = "NULL" THEN S
    ELSE [S EXCEPT !.hw.rec.warn_cmd = @ \cup {c}]

\* entry of send_command for the stop command: what preceded its dispatch
StopDispatch(S, c) ==
    IF c /= "stop" THEN S
    ELSE [S EXCEPT !.hw.rec.stop_disp =
             IF S.mrq.err.data = NoErr THEN "clean"
             ELSE IF S.hw.rec.rst = {"CMD", "DATA"} THEN "after_reset"
             ELSE "unreset"]

\* send_command, the inhibit poll ran out: "Controller never released
\* inhibit bit(s)", cmd->error = -EIO, the tasklet is scheduled, return
InhibitFailed(S, c) ==
    tasklet_schedule(
        [SetError(S, c, EIO) EXCEPT !.hw.rec.inhibit_failed = @ \cup {c}])

\* mutant: a 136-bit response with busy is dispatched like any other
DispatchNoReject(S, c) ==
    LET S1 == [S EXCEPT !.host.timer = TRUE, !.host.cmd = c,
                        !.hw.rec.seq = [c |-> c,
                                        ev |-> <<"mod_timer", "host->cmd">>]]
        S2 == bcm2835_mmc_prepare_data(S1, c)
        S3 == WriteReg(S2, c, "ARGUMENT")
        S4 == bcm2835_mmc_set_transfer_mode(S3, c)
    IN [WriteReg(S4, c, "COMMAND") EXCEPT
           !.hw.cmd_opc = IF c = "cmd" /\ S.mrq.opc = "bustest"
                          THEN "bustest" ELSE "other"]

\* mutant: COMMAND is written before the argument and the transfer mode
DispatchCommandFirst(S, c) ==
    LET S1 == [S EXCEPT !.host.timer = TRUE, !.host.cmd = c,
                        !.hw.rec.seq = [c |-> c,
                                        ev |-> <<"mod_timer", "host->cmd">>]]
        S2 == bcm2835_mmc_prepare_data(S1, c)
        S3 == [WriteReg(S2, c, "COMMAND") EXCEPT
                  !.hw.cmd_opc = IF c = "cmd" /\ S.mrq.opc = "bustest"
                                 THEN "bustest" ELSE "other"]
        S4 == WriteReg(S3, c, "ARGUMENT")
    IN IF Rsp136(S.mrq.flags[c]) /\ RspBusy(S.mrq.flags[c])
       THEN tasklet_schedule(SetError(bcm2835_mmc_set_transfer_mode(
                WriteReg(S2, c, "ARGUMENT"), c), c, EINVAL))
       ELSE bcm2835_mmc_set_transfer_mode(S4, c)

\* (CHOOSE R \in {F(T) : T \in {S}} : TRUE is F(S) with S worked out once,
\* however often F reads it.)
\* send_command after the poll: the watchdog is armed, host->cmd is set, the
\* data is prepared, ARGUMENT and the transfer mode are written, a 136-bit
\* response with busy is refused, COMMAND is written
Dispatch(S, c) ==
    LET S1 == [S EXCEPT !.host.timer = TRUE, !.host.cmd = c,
                        !.hw.rec.seq = [c |-> c,
                                        ev |-> <<"mod_timer", "host->cmd">>]]
        S2 == CHOOSE R \in {bcm2835_mmc_prepare_data(T, c) : T \in {S1}} : TRUE
        S3 == WriteReg(S2, c, "ARGUMENT")
        S4 == CHOOSE R \in {bcm2835_mmc_set_transfer_mode(T, c) :
                                T \in {S3}} : TRUE
    IN IF Rsp136(S.mrq.flags[c]) /\ RspBusy(S.mrq.flags[c])
       THEN tasklet_schedule(SetError(S4, c, EINVAL))
       ELSE [WriteReg(S4, c, "COMMAND") EXCEPT
                !.hw.cmd_opc = IF c = "cmd" /\ S.mrq.opc = "bustest"
                               THEN "bustest" ELSE "other"]

\* mutant: the inhibit poll gives up without scheduling the completion
SendCommandNoSchedule(S, c, stuck) ==
    IF stuck
    THEN [SetError(StopDispatch(S, c), c, EIO) EXCEPT
             !.hw.rec.inhibit_failed = @ \cup {c}]
    ELSE Dispatch(StopDispatch(S, c), c)

\* mutant: the argument register is written before the inhibit poll
SendCommandWriteFirst(S, c, stuck) ==
    IF stuck
    THEN InhibitFailed(WriteReg(StopDispatch(S, c), c, "ARGUMENT"), c)
    ELSE Dispatch(StopDispatch(S, c), c)

bcm2835_mmc_send_command(S, c, stuck) ==
    CHOOSE R \in {IF stuck THEN InhibitFailed(InhibitPoll(T, c), c)
                  ELSE Dispatch(InhibitPoll(T, c), c) :
                      T \in {WarnOnCmd(StopDispatch(S, c), c)}} : TRUE

\* mutant: the stop command is sent without resetting after a data error
FinishDataNoReset(S, stuck) ==
    LET S1 == [S EXCEPT !.host.data = FALSE,
                        !.mrq.bytes_xfered =
                            IF S.mrq.err.data /= NoErr THEN 0
                            ELSE S.mrq.blksz * S.mrq.blocks]
    IN IF S.mrq.stop /\ (S.mrq.err.data /= NoErr \/ ~S.mrq.sbc)
       THEN bcm2835_mmc_send_command(S1, "stop", stuck)
       ELSE tasklet_schedule(S1)

bcm2835_mmc_finish_data(S, stuck) ==
    LET S1 == [S EXCEPT !.host.data = FALSE,
                        !.mrq.bytes_xfered =
                            IF S.mrq.err.data /= NoErr THEN 0
                            ELSE S.mrq.blksz * S.mrq.blocks]
    IN IF S.mrq.stop /\ (S.mrq.err.data /= NoErr \/ ~S.mrq.sbc)
       THEN LET S2 == IF S.mrq.err.data /= NoErr
                      THEN bcm2835_mmc_reset(
                               bcm2835_mmc_reset(S1, "CMD"), "DATA")
                      ELSE S1
            IN bcm2835_mmc_send_command(S2, "stop", stuck)
       ELSE tasklet_schedule(S1)

\* a caller's call of finish_data, recorded
FinishDataBy(S, by, de, stuck) ==
    CHOOSE R \in {bcm2835_mmc_finish_data(
                      [T EXCEPT !.hw.rec.fd =
                          [by |-> by,
                           cmd_pending |-> by \in {"irq", "dma"}
                                              /\ T.host.cmd = "cmd",
                           data_end |-> de /\ T.mrq.err.data = NoErr]],
                      stuck) : T \in {S}} : TRUE

DmaResults == {"ok", "map_fail", "prep_fail"}

\* dma_map_sg returning a length above zero / dma_unmap_sg, on the list of
\* host->data
dma_map_sg(S) == [S EXCEPT !.hw.mapped = TRUE, !.hw.rec.maps = @ + 1]
dma_unmap_sg(S) == [S EXCEPT !.hw.mapped = FALSE, !.hw.rec.unmaps = @ + 1]

bcm2835_mmc_transfer_dma(S, res) ==
    IF ~S.host.data THEN S
    ELSE IF S.host.blocks = 0 THEN S
    ELSE IF res = "map_fail" THEN S
    ELSE IF res = "prep_fail" THEN dma_map_sg(S)
    ELSE [dma_map_sg(S) EXCEPT !.hw.dma_cb = @ + 1]

bcm2835_mmc_finish_command(S, stuck, res) ==
    LET c == S.host.cmd
        S1 == [S EXCEPT !.mrq.err[c] = NoErr,
                        !.hw.rec.stop_resolved = @ \/ (c = "stop")]
    IN IF c = "sbc"
       THEN LET S2 == bcm2835_mmc_send_command(
                          [S1 EXCEPT !.host.cmd = "NULL"], "cmd", stuck)
            IN IF S2.mrq.data /\ S2.host.use_dma
               THEN bcm2835_mmc_transfer_dma(S2, res) ELSE S2
       ELSE LET S2 == IF S1.host.data /\ S1.host.data_early
                      THEN FinishDataBy(S1, "cmd", TRUE, stuck) ELSE S1
                S3 == IF ~CmdData(S2, S2.host.cmd)
                      THEN tasklet_schedule(S2) ELSE S2
            IN [S3 EXCEPT !.host.cmd = "NULL"]

bcm2835_mmc_timeout_timer(S, stuck) ==
    IF ~S.host.mrq THEN S
    ELSE IF S.host.data
    THEN FinishDataBy(
             [SetError(S, "data", ETIMEDOUT) EXCEPT
                 !.hw.rec.wd_stop = @ \/ S.mrq.stop],
             "timer", S.host.data_early, stuck)
    ELSE tasklet_schedule(
             SetError(S, IF S.host.cmd /= "NULL" THEN S.host.cmd ELSE "cmd",
                      ETIMEDOUT))

\* mutant: the callback finishes the data of either direction
DmaCompleteAnyDirection(S, stuck) ==
    IF S.host.data
    THEN FinishDataBy(dma_unmap_sg(S), "dma",
                      S.host.data_early, stuck)
    ELSE S

bcm2835_mmc_dma_complete(S, stuck) ==
    IF S.host.data /\ S.mrq.read
    THEN FinishDataBy(dma_unmap_sg(S), "dma",
                      S.host.data_early, stuck)
    ELSE S

\* interrupt status bits: SDHCI_INT_CMD_MASK, SDHCI_INT_DATA_MASK
CmdMask == {"RESPONSE", "TIMEOUT", "CRC", "END_BIT", "INDEX"}
DataMask == {"DATA_END", "DMA_END", "DATA_AVAIL", "SPACE_AVAIL",
             "DATA_TIMEOUT", "DATA_CRC", "DATA_END_BIT", "ADMA_ERROR"}

\* the interrupt enable mask bcm2835_mmc_init programs
InitIer == {"BUS_POWER", "DATA_END_BIT", "DATA_CRC", "DATA_TIMEOUT", "INDEX",
            "END_BIT", "CRC", "TIMEOUT", "DATA_END", "RESPONSE"}

\* The status bits the controller raises.  The handlers test END_BIT and INDEX
\* in one mask with CRC and only acknowledge BUS_POWER, so CRC stands for the
\* three; the controller's own DMA engine is not used and its two bits never
\* come; the buffer-ready bit is the one of the direction of the transfer.
\* A bit is raised only while SDHCI_INT_ENABLE (host->ier) enables it.
RaisedBits == {"RESPONSE", "TIMEOUT", "CRC", "DATA_END", "DATA_TIMEOUT",
               "DATA_CRC", "DATA_END_BIT", "DATA_AVAIL", "SPACE_AVAIL"}
StatusBits(S) ==
    (S.host.ier \cap RaisedBits)
        \ (IF S.mrq.read THEN {"SPACE_AVAIL"} ELSE {"DATA_AVAIL"})
IntMasks(S) ==
    {m \in SUBSET StatusBits(S) : m /= {} /\ Cardinality(m) <= MaxIrqBits}

bcm2835_mmc_cmd_irq(S, im, stuck, res) ==
    IF S.host.cmd = "NULL" THEN S
    ELSE LET S1 == IF "TIMEOUT" \in im THEN SetError(S, S.host.cmd, ETIMEDOUT)
                   ELSE IF im \cap {"CRC", "END_BIT", "INDEX"} /= {}
                   THEN SetError(S, S.host.cmd, EILSEQ)
                   ELSE S
         IN IF S1.mrq.err[S1.host.cmd] /= NoErr THEN tasklet_schedule(S1)
            ELSE IF "RESPONSE" \in im
            THEN bcm2835_mmc_finish_command(S1, stuck, res)
            ELSE S1

\* mutant: the data is finished as soon as the last block was moved
TransferPioFinishes(S, k) ==
    IF S.host.blocks = 0 THEN S
    ELSE LET S1 == [S EXCEPT !.host.blocks = @ - Min(k, @)]
         IN IF S1.host.blocks = 0 THEN FinishDataBy(S1, "irq", FALSE, FALSE)
            ELSE S1

\* k: blocks for which PRESENT_STATE shows the buffer ready
bcm2835_mmc_transfer_pio(S, k) ==
    IF S.host.blocks = 0 THEN S
    ELSE [S EXCEPT !.host.blocks = @ - Min(k, @)]

bcm2835_mmc_data_irq(S, im, k, stuck, res) ==
    IF ~S.host.data
    THEN IF S.host.cmd /= "NULL" /\ RspBusy(S.mrq.flags[S.host.cmd])
            /\ "DATA_END" \in im
         THEN bcm2835_mmc_finish_command(S, stuck, res)
         ELSE S
    ELSE LET S1 == IF "DATA_TIMEOUT" \in im THEN SetError(S, "data", ETIMEDOUT)
                   ELSE IF "DATA_END_BIT" \in im
                   THEN SetError(S, "data", EILSEQ)
                   ELSE IF "DATA_CRC" \in im /\ S.hw.cmd_opc /= "bustest"
                   THEN SetError(S, "data", EILSEQ)
                   ELSE S
         IN IF S1.host.use_dma
            THEN IF ~S1.mrq.read
                 THEN FinishDataBy(dma_unmap_sg(S1), "irq",
                                   "DATA_END" \in im, stuck)
                 ELSE S1
            ELSE IF S1.mrq.err.data /= NoErr
            THEN FinishDataBy(S1, "irq",
                              "DATA_END" \in im \/ S1.host.data_early, stuck)
            ELSE LET S2 == IF im \cap {"DATA_AVAIL", "SPACE_AVAIL"} /= {}
                           THEN bcm2835_mmc_transfer_pio(S1, k) ELSE S1
                 IN IF "DATA_END" \in im
                    THEN IF S2.host.cmd /= "NULL"
                         THEN [S2 EXCEPT !.host.data_early = TRUE]
                         ELSE FinishDataBy(S2, "irq", TRUE, stuck)
                    ELSE S2

bcm2835_mmc_enable_sdio_irq_nolock(S, enable) ==
    IF "DEVICE_DEAD" \in S.host.flags THEN S
    ELSE [S EXCEPT !.host.ier = IF enable THEN @ \cup {"CARD_INT"}
                                ELSE @ \ {"CARD_INT"}]

\* one iteration of the do-while loop of bcm2835_mmc_irq, up to the re-read
IrqIteration(S, im, k, stuck, res) ==
    LET S1 == IF im \cap CmdMask /= {}
              THEN bcm2835_mmc_cmd_irq(S, im \cap CmdMask, stuck, res) ELSE S
        S2 == IF im \cap DataMask /= {}
              THEN bcm2835_mmc_data_irq(S1, im \cap DataMask, k, stuck, res)
              ELSE S1
    IN IF "CARD_INT" \in im
       THEN [bcm2835_mmc_enable_sdio_irq_nolock(S2, FALSE) EXCEPT
                !.host.thread_isr = TRUE]
       ELSE S2

\* mutant: the tasklet completes without looking at host->mrq
TaskletFinishNoCheck(S) ==
    [S EXCEPT !.host.timer = FALSE, !.host.mrq = FALSE,
              !.host.cmd = "NULL", !.host.data = FALSE,
              !.hw.deliver = S.mrq.id]

\* mutant: the tasklet hands the request back without resetting
TaskletFinishNoReset(S) ==
    IF ~S.host.mrq THEN S
    ELSE [S EXCEPT !.host.timer = FALSE, !.host.mrq = FALSE,
                   !.host.cmd = "NULL", !.host.data = FALSE,
                   !.hw.deliver = S.mrq.id]

\* mutant: the tasklet detaches the request and leaves host->cmd, host->data
TaskletFinishKeepsPointers(S) ==
    IF ~S.host.mrq THEN S
    ELSE [S EXCEPT !.host.timer = FALSE, !.host.mrq = FALSE,
                   !.hw.rec.rst = {"CMD", "DATA"}, !.hw.deliver = S.mrq.id]

\* the locked part of bcm2835_mmc_tasklet_finish; hw.deliver is its local
\* mrq, the request it hands to mmc_request_done after the unlock
bcm2835_mmc_tasklet_finish(S) ==
    IF ~S.host.mrq THEN S
    ELSE LET S1 == [S EXCEPT !.host.timer = FALSE]
             m == S.mrq
             S2 == IF "DEVICE_DEAD" \notin S.host.flags
                      /\ (m.err.cmd /= NoErr
                          \/ (m.data /\ (m.err.data /= NoErr
                                  \/ (m.stop /\ m.err.stop /= NoErr))))
                   THEN bcm2835_mmc_reset(bcm2835_mmc_reset(S1, "CMD"), "DATA")
                   ELSE S1
         IN [S2 EXCEPT !.host.mrq = FALSE, !.host.cmd = "NULL",
                       !.host.data = FALSE, !.hw.deliver = m.id]

Cur == [host |-> host, mrq |-> mrq, hw |-> hw]

\* the handlers pending for the request before, as a request is submitted
PendingHandlers ==
    {h \in {"timer", "tasklet", "run", "dma"} :
        \/ h = "timer" /\ ctx.timer
        \/ h = "tasklet" /\ host.tasklet
        \/ h = "run" /\ ctx.task = "run"
        \/ h = "dma" /\ hw.dma_cb > 0}

Becomes(S) == \E T \in {S} : host' = T.host /\ mrq' = T.mrq /\ hw' = T.hw

\* the inputs a handler draws, where its path can read them
\* stuck: the inhibit bits do not clear within the poll.  Only a handler
\* that can reach send_command reads them; a dead device reads all ones.
StuckChoices(S) ==
    IF "DEVICE_DEAD" \in S.host.flags THEN {TRUE}
    ELSE IF (S.host.data /\ S.mrq.stop) \/ S.host.cmd = "sbc" THEN BOOLEAN
    ELSE {FALSE}

ResChoices(S) == IF S.host.cmd = "sbc" THEN DmaResults ELSE {"ok"}

ReadyChoices(S, im) ==
    IF im \cap {"DATA_AVAIL", "SPACE_AVAIL"} /= {}
       /\ (S.host.data \/ S.host.cmd = "sbc")
    THEN 0..MaxBlocks ELSE {0}

IrqIdle == [pc |-> "idle", max_loops |-> 0, iters |-> 0, more |-> FALSE]

\* the host after bcm2835_mmc_add_host, with or without a DMA channel;
\* barrier is PIO_DMA_BARRIER, a constant of the build
HostInit(dma) ==
    [lock |-> "free", mrq |-> FALSE, cmd |-> "NULL",
     data |-> FALSE, data_early |-> FALSE, use_dma |-> FALSE,
     have_dma |-> dma, barrier |-> PIO_DMA_BARRIER,
     blocks |-> 0, flags |-> HostFlags,
     timer |-> FALSE, tasklet |-> FALSE, ier |-> InitIer,
     thread_isr |-> FALSE]
HwInit == [rec |-> NoRecord, stale |-> {}, cmd_opc |-> "other", mapped |-> FALSE,
           dma_cb |-> 0, deliver |-> 0]
CtxInit == [req |-> "idle", task |-> "idle", timer |-> FALSE]

Init ==
    /\ mrq = NoRequest
    /\ hw = HwInit
    /\ ctx = CtxInit
    /\ irq = IrqIdle
    /\ done = [i \in 1..MaxReq |-> 0]
    /\ clk = ClkOff /\ pio = PioOff /\ tm = TmOff /\ disp = DispOff
    /\ sdio = SdioOff /\ reg = RegOff
    /\ \E dma \in BOOLEAN : host = HostInit(dma)

Pure == UNCHANGED <<clk, pio, tm, disp, sdio, reg>>

\* bcm2835_mmc_request.  After the unlock it tests mrq->cmd->data and
\* host->use_dma, which no other context changes before it returns: where
\* the test fails the call has returned, where it holds the DMA start is
\* the step RequestTail.
Request ==
    /\ host.lock = "free"
    /\ ctx.req = "idle"
    /\ "DEVICE_DEAD" \notin host.flags
    /\ mrq.id < MaxReq
    /\ IF mrq.id = 0 THEN TRUE ELSE done[mrq.id] >= 1
    /\ \E sh \in ReqShapes, stuck \in BOOLEAN :
          LET S == [host |-> [host EXCEPT !.mrq = TRUE],
                    mrq |-> NewRequest(mrq.id + 1, sh),
                    hw |-> [hw EXCEPT !.rec = NoRecord,
                                   !.stale = PendingHandlers]]
              sbc == sh.sbc /\ "AUTO_CMD23" \notin host.flags
              T == bcm2835_mmc_send_command(
                       S, IF sbc THEN "sbc" ELSE "cmd", stuck)
          IN /\ Becomes(T)
             /\ ctx' = [ctx EXCEPT !.req =
                           IF ~sbc /\ T.mrq.data /\ T.host.use_dma
                           THEN "unlocked" ELSE "idle"]
    /\ UNCHANGED <<irq, done>>
    /\ Pure

\* bcm2835_mmc_request after the unlock: the DMA start, without the lock
RequestTail ==
    /\ ctx.req = "unlocked"
    /\ \E res \in DmaResults : Becomes(bcm2835_mmc_transfer_dma(Cur, res))
    /\ ctx' = [ctx EXCEPT !.req = "idle"]
    /\ UNCHANGED <<irq, done>>
    /\ Pure

\* the engine calls bcm2835_mmc_dma_complete
DmaComplete ==
    /\ host.lock = "free"
    /\ hw.dma_cb > 0
    /\ \E stuck \in StuckChoices(Cur) :
          Becomes(bcm2835_mmc_dma_complete(
                      [Cur EXCEPT !.hw.dma_cb = @ - 1,
                                  !.hw.stale = @ \ {"dma"}], stuck))
    /\ UNCHANGED <<ctx, irq, done>>
    /\ Pure

\* the timer expires: its handler is started and will take the lock
TimerExpire ==
    /\ host.timer
    /\ ~ctx.timer
    /\ host' = [host EXCEPT !.timer = FALSE]
    /\ ctx' = [ctx EXCEPT !.timer = TRUE]
    /\ UNCHANGED <<mrq, hw, irq, done>>
    /\ Pure

TimeoutTimer ==
    /\ host.lock = "free"
    /\ ctx.timer
    /\ \E stuck \in StuckChoices(Cur) :
          Becomes(bcm2835_mmc_timeout_timer(
                      [Cur EXCEPT !.hw.stale = @ \ {"timer"}], stuck))
    /\ ctx' = [ctx EXCEPT !.timer = FALSE]
    /\ UNCHANGED <<irq, done>>
    /\ Pure

\* bcm2835_mmc_irq, one invocation whose loop makes one pass.  An invocation
\* of n passes is n of these in a row: between two passes the lock stays
\* taken, and the steps of the other contexts that need no lock may fall
\* between two of these just as they may fall between two passes.
Irq ==
    /\ host.lock = "free"
    /\ irq.pc = "idle"
    /\ \E status \in {"zero", "ones", "bits"} :
          /\ ("DEVICE_DEAD" \in host.flags) => status = "ones"
          /\ IF status = "bits"
             THEN \E im \in IntMasks(Cur) :
                    \E k \in ReadyChoices(Cur, im),
                       stuck \in StuckChoices(Cur), res \in ResChoices(Cur) :
                       Becomes(IrqIteration(Cur, im, k, stuck, res))
             ELSE UNCHANGED <<host, mrq, hw>>
    /\ UNCHANGED <<ctx, irq, done>>
    /\ Pure

\* bcm2835_mmc_irq step by step: spin_lock and the first read of the status
IrqEnter ==
    /\ host.lock = "free"
    /\ irq.pc = "idle"
    /\ \E status \in {"zero", "ones", "bits"} :
          /\ ("DEVICE_DEAD" \in host.flags) => status = "ones"
          /\ IF status = "bits"
             THEN /\ host' = [host EXCEPT !.lock = "irq"]
                  /\ irq' = [pc |-> "loop", max_loops |-> MaxLoops,
                             iters |-> 0, more |-> TRUE]
             ELSE UNCHANGED <<host, irq>>
    /\ UNCHANGED <<mrq, hw, ctx, done>>
    /\ Pure

\* mutant: the loop condition does not count
LoopsLeftNoCount(max_loops, again) == max_loops

\* the budget left after the loop condition "intmask && --max_loops"
LoopsLeft(max_loops, again) == IF again THEN max_loops - 1 ELSE max_loops

\* one pass of the loop body and the re-read that decides on the next
IrqLoop ==
    /\ irq.pc = "loop"
    /\ irq.iters <= MaxLoops
    /\ \E im \in IntMasks(Cur), again \in BOOLEAN :
         \E k \in ReadyChoices(Cur, im), stuck \in StuckChoices(Cur),
            res \in ResChoices(Cur) :
          /\ Becomes(IrqIteration(Cur, im, k, stuck, res))
          /\ LET left == LoopsLeft(irq.max_loops, again)
             IN irq' = [pc |-> IF again /\ left /= 0 THEN "loop" ELSE "out",
                        max_loops |-> left,
                        iters |-> irq.iters + 1,
                        more |-> again]
    /\ UNCHANGED <<ctx, done>>
    /\ Pure

\* out: spin_unlock and return
IrqExit ==
    /\ irq.pc = "out"
    /\ host' = [host EXCEPT !.lock = "free"]
    /\ irq' = [irq EXCEPT !.pc = "ret"]
    /\ UNCHANGED <<mrq, hw, ctx, done>>
    /\ Pure

\* the handler has returned; the line may be raised again
IrqReturn ==
    /\ irq.pc = "ret"
    /\ irq' = IrqIdle
    /\ UNCHANGED <<host, mrq, hw, ctx, done>>
    /\ Pure

\* the softirq picks the scheduled tasklet up and clears its scheduled bit
TaskletStart ==
    /\ host.tasklet
    /\ ctx.task = "idle"
    /\ host' = [host EXCEPT !.tasklet = FALSE]
    /\ ctx' = [ctx EXCEPT !.task = "run"]
    /\ hw' = [hw EXCEPT !.stale = IF "tasklet" \in @
                                  THEN (@ \ {"tasklet"}) \cup {"run"}
                                  ELSE @]
    /\ UNCHANGED <<mrq, irq, done>>
    /\ Pure

TaskletFinish ==
    /\ host.lock = "free"
    /\ ctx.task = "run"
    /\ LET T == bcm2835_mmc_tasklet_finish(
                     [Cur EXCEPT !.hw.stale = @ \ {"run"}])
       IN /\ Becomes(T)
          /\ ctx' = [ctx EXCEPT !.task =
                        IF T.hw.deliver /= 0 THEN "done" ELSE "idle"]
    /\ UNCHANGED <<irq, done>>
    /\ Pure

\* mmc_request_done(host->mmc, mrq), after the unlock: the request goes back
\* to its owner and the driver holds no pointer to it any more
RequestDone ==
    /\ ctx.task = "done"
    /\ done' = [done EXCEPT ![hw.deliver] = @ + 1]
    /\ ctx' = [ctx EXCEPT !.task = "idle"]
    /\ hw' = [hw EXCEPT !.deliver = 0, !.rec = NoRecord]
    /\ mrq' = [NoRequest EXCEPT !.id = mrq.id]
    /\ UNCHANGED <<host, irq>>
    /\ Pure

\* bcm2835_mmc_remove finds the device dead
Remove ==
    /\ host.lock = "free"
    /\ "DEVICE_DEAD" \notin host.flags
    /\ LET S == [Cur EXCEPT !.host.flags = @ \cup {"DEVICE_DEAD"}]
       IN Becomes(IF host.mrq
                  THEN tasklet_schedule(SetError(S, "cmd", ENOMEDIUM))
                  ELSE S)
    /\ UNCHANGED <<ctx, irq, done>>
    /\ Pure

Next ==
    \/ Request
    \/ RequestTail
    \/ DmaComplete
    \/ TimerExpire
    \/ TimeoutTimer
    \/ Irq
    \/ TaskletStart
    \/ TaskletFinish
    \/ RequestDone
    \/ Remove

Spec == Init /\ [][Next]_vars

\* An armed timer expires and its handler runs; a scheduled tasklet is run to
\* its end.  Nothing is assumed of the controller or of the DMA engine.
Fairness ==
    /\ WF_vars(TimerExpire)
    /\ WF_vars(TimeoutTimer)
    /\ WF_vars(TaskletStart)
    /\ WF_vars(TaskletFinish)
    /\ WF_vars(RequestDone)

FairSpec == Spec /\ Fairness

NextIrq ==
    \/ Request
    \/ RequestTail
    \/ IrqEnter
    \/ IrqLoop
    \/ IrqExit
    \/ IrqReturn

SpecIrq == Init /\ [][NextIrq]_vars

\* the driver built with a threshold above the default, on a host with DMA
\* channels: transfers of up to host.barrier blocks go by PIO, larger by DMA
InitBarrier ==
    /\ mrq = NoRequest
    /\ hw = HwInit
    /\ ctx = CtxInit
    /\ irq = IrqIdle
    /\ done = [i \in 1..MaxReq |-> 0]
    /\ clk = ClkOff /\ pio = PioOff /\ tm = TmOff /\ disp = DispOff
    /\ sdio = SdioOff /\ reg = RegOff
    /\ \E b \in BarrierValues \ {PIO_DMA_BARRIER} :
          host = [HostInit(TRUE) EXCEPT !.barrier = b]

SpecBarrier == InitBarrier /\ [][Next]_vars

\* The dispatch of the commands of one request, with the inhibit bits that
\* SDHCI_PRESENT_STATE keeps set during each poll as an input: disp.ps[c] are
\* the bits that stay set while the dispatch of command c polls.
InhibitBits == {"CMD_INHIBIT", "DATA_INHIBIT"}

InitCmd ==
    /\ mrq = NoRequest
    /\ hw = HwInit
    /\ ctx = CtxInit
    /\ irq = IrqIdle
    /\ done = [i \in 1..MaxReq |-> 0]
    /\ clk = ClkOff /\ pio = PioOff /\ tm = TmOff
    /\ disp = [pc |-> "idle", ps |-> [c \in Cmds |-> {}]]
    /\ sdio = SdioOff /\ reg = RegOff
    /\ \E dma \in BOOLEAN, b \in BarrierValues :
          /\ ~dma => b = PIO_DMA_BARRIER
          /\ host = [HostInit(dma) EXCEPT !.barrier = b]

\* the locked part of bcm2835_mmc_request
CmdSubmit ==
    /\ disp.pc = "idle"
    /\ \E sh \in ReqShapes, ps \in SUBSET InhibitBits :
          LET S == [host |-> [host EXCEPT !.mrq = TRUE],
                    mrq |-> NewRequest(1, sh),
                    hw |-> [hw EXCEPT !.rec = NoRecord,
                                   !.stale = PendingHandlers]]
              c == IF sh.sbc /\ "AUTO_CMD23" \notin host.flags
                   THEN "sbc" ELSE "cmd"
          IN /\ Becomes(bcm2835_mmc_send_command(
                            S, c, ps \cap InhibitMask(S, c) /= {}))
             /\ disp' = [pc |-> "sent", ps |-> [disp.ps EXCEPT ![c] = ps]]
    /\ UNCHANGED <<ctx, irq, done, clk, pio, tm, sdio, reg>>

\* one pass of the interrupt handler; where it comes to dispatch the stop
\* command, the bits that stay set during that poll are ps
CmdIrq ==
    /\ disp.pc = "sent"
    /\ \E im \in IntMasks(Cur), ps \in SUBSET InhibitBits :
          \E T \in {IrqIteration(Cur, im, MaxBlocks,
                                  ps \cap InhibitMask(Cur, "stop") /= {},
                                  "ok")} :
            \E polled \in {\E b \in InhibitBits :
                                <<"stop", b>> \in T.hw.rec.poll} :
             /\ polled \/ ps = {}
             /\ Becomes(T)
             /\ disp' = IF polled
                         THEN [pc |-> "stop",
                               ps |-> [disp.ps EXCEPT !["stop"] = ps]]
                         ELSE disp
    /\ UNCHANGED <<ctx, irq, done, clk, pio, tm, sdio, reg>>

NextCmd == CmdSubmit \/ CmdIrq

SpecCmd == InitCmd /\ [][NextCmd]_vars

(***************************************************************************)
(* The card interrupt, as built with CONFIG_ARCH_BCM2835: the interrupt     *)
(* handler masks it and wakes the threaded handler.                        *)
(*   sdio.wake   the handler returned IRQ_WAKE_THREAD, the thread is due   *)
(*   sdio.pc     the threaded handler: "idle", "run" (before               *)
(*               sdio_run_irqs), "enable" (before its second locked part)  *)
(*   sdio.last   the caller's last bcm2835_mmc_enable_sdio_irq(enable)     *)
(*   sdio.irqs, sdio.runs   card interrupts taken, calls of sdio_run_irqs  *)
(***************************************************************************)
InitSdio ==
    /\ host = HostInit(FALSE) /\ mrq = NoRequest /\ hw = HwInit
    /\ ctx = CtxInit /\ irq = IrqIdle /\ done = [i \in 1..MaxReq |-> 0]
    /\ clk = ClkOff /\ pio = PioOff /\ tm = TmOff /\ disp = DispOff
    /\ reg = RegOff
    /\ sdio = [pc |-> "idle", wake |-> FALSE, last |-> FALSE,
               irqs |-> 0, runs |-> 0]

SdioFrame == UNCHANGED <<mrq, hw, ctx, irq, done, clk, pio, tm, disp, reg>>

\* bcm2835_mmc_enable_sdio_irq(mmc, enable)
bcm2835_mmc_enable_sdio_irq(S, enable) ==
    bcm2835_mmc_enable_sdio_irq_nolock(
        [S EXCEPT !.host.flags = IF enable THEN @ \cup {"SDIO_IRQ_ENABLED"}
                                 ELSE @ \ {"SDIO_IRQ_ENABLED"}], enable)

SdioEnable ==
    /\ host.lock = "free"
    /\ \E enable \in BOOLEAN :
          /\ host' = bcm2835_mmc_enable_sdio_irq(Cur, enable).host
          /\ sdio' = [sdio EXCEPT !.last = enable]
    /\ SdioFrame

\* bcm2835_mmc_irq with SDHCI_INT_CARD_INT in the status: the controller
\* raises the bit only while SDHCI_INT_ENABLE has it, and a dead device
\* reads all ones
SdioIrq ==
    /\ host.lock = "free"
    /\ "CARD_INT" \in host.ier
    /\ "DEVICE_DEAD" \notin host.flags
    /\ sdio.irqs < MaxCardIrqs
    /\ \E im \in {{"CARD_INT"}, {"CARD_INT", "RESPONSE"}} :
          host' = IrqIteration(Cur, im, 0, FALSE, "ok").host
    /\ sdio' = [sdio EXCEPT !.wake = TRUE, !.irqs = @ + 1]
    /\ SdioFrame

\* mutant: the threaded handler re-enables whatever the flag says
ThreadIrqEnableAlways(S) == bcm2835_mmc_enable_sdio_irq_nolock(S, TRUE)

\* bcm2835_mmc_thread_irq, its second locked part
ThreadIrqEnable(S) ==
    IF "SDIO_IRQ_ENABLED" \in S.host.flags
    THEN bcm2835_mmc_enable_sdio_irq_nolock(S, TRUE) ELSE S

\* bcm2835_mmc_thread_irq, its first locked part: isr = host->thread_isr;
\* host->thread_isr = 0
SdioThreadStart ==
    /\ host.lock = "free"
    /\ sdio.wake /\ sdio.pc = "idle"
    /\ host' = [host EXCEPT !.thread_isr = FALSE]
    /\ sdio' = [sdio EXCEPT !.wake = FALSE,
                            !.pc = IF host.thread_isr THEN "run" ELSE "idle"]
    /\ SdioFrame

\* sdio_run_irqs(host->mmc), without the lock
SdioThreadRun ==
    /\ sdio.pc = "run"
    /\ sdio' = [sdio EXCEPT !.pc = "enable", !.runs = @ + 1]
    /\ UNCHANGED host
    /\ SdioFrame

SdioThreadEnable ==
    /\ host.lock = "free"
    /\ sdio.pc = "enable"
    /\ host' = ThreadIrqEnable(Cur).host
    /\ sdio' = [sdio EXCEPT !.pc = "idle"]
    /\ SdioFrame

\* bcm2835_mmc_remove finds the device dead
SdioRemove ==
    /\ host.lock = "free"
    /\ "DEVICE_DEAD" \notin host.flags
    /\ host' = [host EXCEPT !.flags = @ \cup {"DEVICE_DEAD"}]
    /\ UNCHANGED sdio
    /\ SdioFrame

NextSdio ==
    \/ SdioEnable
    \/ SdioIrq
    \/ SdioThreadStart
    \/ SdioThreadRun
    \/ SdioThreadEnable
    \/ SdioRemove

SpecSdio == InitSdio /\ [][NextSdio]_vars

(***************************************************************************)
(* The 16-bit register writes over the 32-bit MMIO window.                 *)
(***************************************************************************)

\* how many register writes a behaviour of SpecReg makes
MaxRegOps == 3

\* the offsets of the 16-bit registers written by the driver (sdhci.h)
RegOffset ==
    [BLOCK_SIZE |-> 4, BLOCK_COUNT |-> 6, TRANSFER_MODE |-> 12, COMMAND |-> 14]

\* the 16-bit values written
HalfValues == {0, 3, 58, 65535}

\* reg = [pc, io, shadow, ops, last]: io is the MMIO window, by word address,
\* a 32-bit word being its two 16-bit halves [hi, lo] (bits 31..16, 15..0);
\* shadow is host->shadow; last is the last call of bcm2835_mmc_writew: its
\* register and value, the words it read from the hardware (rd) and the
\* 32-bit writes it made to the hardware (wr), in order
\* mutant: the command write takes the other half from the hardware word
WritewFromHardware(R, val, r) ==
    LET a == RegOffset[r] - (RegOffset[r] % 4)
        word_num == (RegOffset[r] \div 2) % 2
        oldval == R.io[a]
        newval == IF word_num = 1 THEN [oldval EXCEPT !.hi = val % 65536]
                  ELSE [oldval EXCEPT !.lo = val % 65536]
    IN IF r = "TRANSFER_MODE"
       THEN [R EXCEPT !.shadow = newval, !.ops = @ + 1,
                      !.last = [reg |-> r, val |-> val, rd |-> <<a>>,
                                wr |-> <<>>]]
       ELSE [R EXCEPT !.io[a] = newval, !.ops = @ + 1,
                      !.last = [reg |-> r, val |-> val, rd |-> <<a>>,
                                wr |-> << <<a, newval>> >>]]

\* bcm2835_mmc_writew: oldval is the shadow for SDHCI_COMMAND and a 32-bit
\* read of the containing word (reg & ~3) otherwise; newval replaces half
\* word_num = (reg >> 1) & 1 of oldval by val; newval goes to the shadow for
\* SDHCI_TRANSFER_MODE and to the containing word otherwise
bcm2835_mmc_writew(R, val, r) ==
    LET a == RegOffset[r] - (RegOffset[r] % 4)
        word_num == (RegOffset[r] \div 2) % 2
        rd == IF r = "COMMAND" THEN <<>> ELSE <<a>>
        oldval == IF r = "COMMAND" THEN R.shadow ELSE R.io[a]
        newval == IF word_num = 1 THEN [oldval EXCEPT !.hi = val % 65536]
                  ELSE [oldval EXCEPT !.lo = val % 65536]
    IN IF r = "TRANSFER_MODE"
       THEN [R EXCEPT !.shadow = newval, !.ops = @ + 1,
                      !.last = [reg |-> r, val |-> val, rd |-> rd,
                                wr |-> <<>>]]
       ELSE [R EXCEPT !.io[a] = newval, !.ops = @ + 1,
                      !.last = [reg |-> r, val |-> val, rd |-> rd,
                                wr |-> << <<a, newval>> >>]]

\* the host after allocation (shadow zeroed) over a window whose words hold
\* whatever the controller holds at that time
InitReg ==
    /\ host = HostInit(FALSE) /\ mrq = NoRequest /\ hw = HwInit
    /\ ctx = CtxInit /\ irq = IrqIdle /\ done = <<>>
    /\ clk = ClkOff /\ pio = PioOff /\ tm = TmOff /\ disp = DispOff
    /\ sdio = SdioOff
    /\ \E l4 \in {0, 512}, h12 \in {0, 65535}, l12 \in {0, 3} :
          reg = [pc |-> "on",
                 io |-> (4 :> [hi |-> 0, lo |-> l4] @@
                         12 :> [hi |-> h12, lo |-> l12]),
                 shadow |-> [hi |-> 0, lo |-> 0],
                 ops |-> 0,
                 last |-> [reg |-> "none", val |-> 0, rd |-> <<>>,
                           wr |-> <<>>]]

\* one 16-bit register write
RegWritew ==
    /\ reg.pc = "on" /\ reg.ops < MaxRegOps
    /\ \E r \in DOMAIN RegOffset, val \in HalfValues :
          reg' = bcm2835_mmc_writew(reg, val, r)
    /\ UNCHANGED <<host, mrq, hw, ctx, irq, done, clk, pio, tm, disp, sdio>>

NextReg == RegWritew

SpecReg == InitReg /\ [][NextReg]_vars

\* one call of bcm2835_mmc_set_clock for each max_clk and requested clock
InitClk ==
    /\ host = HostInit(FALSE) /\ mrq = NoRequest /\ hw = HwInit
    /\ ctx = CtxInit /\ irq = IrqIdle /\ done = <<>>
    /\ pio = PioOff /\ tm = TmOff /\ disp = DispOff
    /\ sdio = SdioOff /\ reg = RegOff
    /\ \E m \in MaxClkValues, c \in ClockValues :
          clk = [pc |-> "call", max_clk |-> m, clock |-> c, real_div |-> 0,
                 actual_clock |-> 0]

SpecClk == InitClk /\ [][set_clock]_vars

\* one block of every size, content and split into regions; the last region
\* may extend past the end of the block
InitPio ==
    /\ host = HostInit(FALSE) /\ mrq = NoRequest /\ hw = HwInit
    /\ ctx = CtxInit /\ irq = IrqIdle /\ done = <<>>
    /\ clk = ClkOff /\ tm = TmOff /\ disp = DispOff
    /\ sdio = SdioOff /\ reg = RegOff
    /\ \E n \in 1..MaxBlkSz :
          \E b \in SeqsOf(ByteVals, n), cuts \in SUBSET (1..(n - 1)),
             extra \in 0..1 :
            pio = [pc |-> "write", blksz |-> n,
                   sg |-> Regions(b \o [i \in 1..extra |-> 0], cuts, 1),
                   words |-> <<>>, out |-> <<>>, reads |-> 0]

NextPio == PioWriteBlock \/ PioReadBlock

SpecPio == InitPio /\ [][NextPio]_vars

\* one call of bcm2835_mmc_set_transfer_mode for each combination of inputs
InitTm ==
    /\ host = HostInit(FALSE) /\ mrq = NoRequest /\ hw = HwInit
    /\ ctx = CtxInit /\ irq = IrqIdle /\ done = <<>>
    /\ clk = ClkOff /\ pio = PioOff /\ disp = DispOff
    /\ sdio = SdioOff /\ reg = RegOff
    /\ \E d \in BOOLEAN, m \in BOOLEAN, b \in 1..MaxBlocks, s \in BOOLEAN,
          r \in BOOLEAN,
          f \in SUBSET {"AUTO_CMD12", "AUTO_CMD23", "REQ_USE_DMA"},
          h \in SUBSET {"AUTO_CMD12", "AUTO_CMD23", "MULTI"} :
            tm = [pc |-> "call", data |-> d, multi_op |-> m, blocks |-> b,
                  sbc |-> s, read |-> r, flags |-> f, hw_mode |-> h,
                  mode |-> {}, arg2 |-> FALSE]

SpecTm == InitTm /\ [][set_transfer_mode]_vars

(***************************************************************************)
(* Properties.                                                             *)
(***************************************************************************)

\* C1: mmc_request_done is called at most once for each submitted request,
\* and only for the request that is active: the one submitted last and not
\* completed yet; a further run of the tasklet for the same request delivers
\* nothing.
C1_CompletedOnce ==
    /\ \A i \in 1..MaxReq : done[i] <= 1
    /\ ctx.task = "done" =>
          /\ hw.deliver \in 1..MaxReq
          /\ hw.deliver = mrq.id
          /\ done[hw.deliver] = 0
    /\ ctx.task /= "done" => hw.deliver = 0

\* request 1 is completed and the tasklet, scheduled again while it was
\* running, has been started once more with no request active
C1_Witness ==
    mrq.id = 1 /\ done[1] = 1 /\ ctx.task = "run" /\ ~host.mrq

\* C2: every submitted request is eventually completed, if the watchdog runs
\* when armed and the tasklet when scheduled, whatever the controller and the
\* DMA engine do or fail to do.
C2_EventuallyCompleted ==
    \A i \in 1..MaxReq : (mrq.id = i /\ host.mrq) ~> (done[i] >= 1)

\* a completed request on whose data the watchdog expired: the
\* stop command was dispatched and timed out in its turn
C2_Witness ==
    /\ ctx.task = "done" /\ hw.rec.wd_stop
    /\ mrq.err.data = ETIMEDOUT /\ mrq.err.stop = ETIMEDOUT

HasError(m) == \E c \in Cmds \cup {"data"} : m.err[c] /= NoErr

\* C3: when the tasklet completes a request that carries an error on a
\* command or on its data and the device is not flagged dead, a command
\* reset and a data reset were issued after the error was last recorded and
\* before mmc_request_done.
C3_ResetBeforeCompletion ==
    (ctx.task = "done" /\ HasError(mrq) /\ "DEVICE_DEAD" \notin host.flags)
        => hw.rec.rst = {"CMD", "DATA"}

\* a request whose stop command failed is about to be handed back, reset
C3_Witness ==
    /\ ctx.task = "done" /\ "DEVICE_DEAD" \notin host.flags
    /\ mrq.err.stop /= NoErr /\ mrq.err.cmd = NoErr /\ mrq.err.data = NoErr
    /\ hw.rec.rst = {"CMD", "DATA"}

\* C4: the stop command of a transfer whose data carries an error is never
\* dispatched without a command reset and a data reset issued after the error
\* was recorded, whichever context runs the data completion.
C4_ResetBeforeStop == hw.rec.stop_disp /= "unreset"

\* the stop command is the current command, sent after a data error and the
\* two resets
C4_Witness ==
    /\ hw.rec.stop_disp = "after_reset" /\ host.cmd = "stop"
    /\ mrq.err.data = EILSEQ

\* C5: when the watchdog expires on data in flight that has a stop command,
\* the data error is the timeout, the two resets are issued and the stop
\* command is dispatched, and the request is completed only after the stop
\* command is resolved (response, error, inhibit failure, its own timeout).
C5_CompletionAfterStop ==
    hw.rec.wd_stop =>
        /\ mrq.err.data = ETIMEDOUT
        /\ hw.rec.stop_disp = "after_reset"
        /\ (ctx.task = "done" /\ "DEVICE_DEAD" \notin host.flags)
              => hw.rec.stop_resolved

InhibitRegs ==
    {"ARGUMENT", "COMMAND", "BLOCK_SIZE", "BLOCK_COUNT", "TRANSFER_MODE"}

C7_AutoCmdSelection ==
    tm.pc = "ret" =>
        LET multi == tm.multi_op \/ tm.blocks > 1
        IN IF tm.data
           THEN /\ "AUTO_CMD12" \in tm.mode =>
                      multi /\ ~tm.sbc /\ "AUTO_CMD12" \in tm.flags
                /\ "AUTO_CMD23" \in tm.mode =>
                      multi /\ tm.sbc /\ "AUTO_CMD23" \in tm.flags /\ tm.arg2
                /\ ~({"AUTO_CMD12", "AUTO_CMD23"} \subseteq tm.mode)
           ELSE tm.mode \cap {"AUTO_CMD12", "AUTO_CMD23"} = {}

\* a host with both capabilities dispatches a multi-block command that has a
\* block-count sub-command: auto-CMD23 alone is chosen
C7_Witness ==
    /\ tm.pc = "ret" /\ tm.data /\ tm.sbc /\ tm.blocks > 1
    /\ {"AUTO_CMD12", "AUTO_CMD23"} \subseteq tm.flags
    /\ "AUTO_CMD23" \in tm.mode /\ "AUTO_CMD12" \notin tm.mode /\ tm.arg2

\* the frequency a valid divisor d gives, and the choice set_clock made
ClockOf(d) == clk.max_clk \div d
ClockChoiceBest ==
    /\ clk.actual_clock <= clk.clock
    /\ \A d \in ValidDivisors :
          ClockOf(d) <= clk.clock => ClockOf(d) <= clk.actual_clock

\* C8 as stated: for every max_clk > 0 and every requested clock > 0 the
\* actual clock is at most the requested clock and no valid divisor gives a
\* larger one that is still at most the requested clock.
C8_AnyClock ==
    (clk.pc = "ret" /\ clk.max_clk > 0 /\ clk.clock > 0) => ClockChoiceBest

\* C8 (amended): the same for every requested clock that is at least
\* max_clk / 2046, the lowest frequency a valid divisor can give (f_min).
C8_ClockAtLeastFmin ==
    (/\ clk.pc = "ret" /\ clk.max_clk > 0 /\ clk.clock > 0
     /\ clk.clock >= clk.max_clk \div SDHCI_MAX_DIV_SPEC_300) => ClockChoiceBest

\* the search went past the first even divisor and the result is strictly
\* below the request
C8_Witness ==
    /\ clk.pc = "ret" /\ clk.clock > 0
    /\ clk.clock >= clk.max_clk \div SDHCI_MAX_DIV_SPEC_300
    /\ clk.real_div > 2 /\ clk.actual_clock < clk.clock
    /\ clk.actual_clock = ClockOf(clk.real_div)

\* C9: one invocation of the interrupt handler makes at most 16 passes of
\* its acknowledge/dispatch loop, a further pass is only started with budget
\* left, and the handler returns with the host lock released, also when every
\* re-read of the status is non-zero.
C9_IrqLoopBounded ==
    /\ irq.iters <= MaxLoops
    /\ irq.pc = "loop" => irq.iters < MaxLoops /\ host.lock = "irq"
    /\ irq.pc = "ret" => host.lock = "free"

\* the handler has returned after 16 passes, the last re-read still non-zero
C9_Witness ==
    irq.pc = "ret" /\ irq.iters = MaxLoops /\ irq.more /\ host.lock = "free"

\* byte lane j (0 = least significant) of a 32-bit word
Lane(w, j) ==
    IF j = 0 THEN w.lo % 256
    ELSE IF j = 1 THEN w.lo \div 256
    ELSE IF j = 2 THEN w.hi % 256
    ELSE w.hi \div 256

\* the block: the first blksz bytes of the scatter-gather regions
PioBlock == SubSeq(Flatten(pio.sg), 1, pio.blksz)
PioWords == (pio.blksz + 3) \div 4

\* C10: the words written for a block B, read back with the same block size
\* and the same regions, give B; byte i of the block is lane (i-1) mod 4 of
\* word (i-1) div 4, least significant first; the partial trailing word is
\* written once, so that each direction makes ceil(blksz / 4) accesses.
C10_PioRoundTrip ==
    /\ pio.pc \in {"read", "done"} =>
          /\ Len(pio.words) = PioWords
          /\ \A i \in 1..pio.blksz :
                Lane(pio.words[((i - 1) \div 4) + 1], (i - 1) % 4) = PioBlock[i]
    /\ pio.pc = "done" => pio.out = PioBlock /\ pio.reads = PioWords

\* a block of 5 bytes over three or more regions whose last byte is 0xFF
C10_Witness ==
    /\ pio.pc = "done" /\ pio.blksz > 4 /\ pio.blksz % 4 /= 0
    /\ Len(pio.sg) >= 3
    /\ pio.out = PioBlock /\ pio.out[pio.blksz] = 255
    /\ Len(pio.words) = 2 /\ pio.reads = 2

\* a read by PIO, prepared, with no error on its command or its data
PioReadClean ==
    /\ mrq.data /\ mrq.read /\ ~host.use_dma
    /\ <<"cmd", "BLOCK_COUNT">> \in hw.rec.wr
    /\ mrq.err.cmd = NoErr /\ mrq.err.data = NoErr

\* C11: a PIO read whose command got its response and whose interrupts carry
\* no error bit is finished by the interrupt handler only at the data-end
\* interrupt, after the response, with bytes_xfered = blksz * blocks (512 for
\* one block) and no data error, and completes so; neither the data-available
\* interrupt nor host->blocks reaching zero finishes the data.
C11_PioReadDataEnd ==
    PioReadClean =>
        /\ hw.rec.fd.by \in {"irq", "cmd"} =>
              /\ hw.rec.fd.data_end /\ ~hw.rec.fd.cmd_pending
              /\ ~host.data
              /\ mrq.bytes_xfered = mrq.blksz * mrq.blocks
        /\ hw.rec.fd.by = "no" =>
              /\ mrq.bytes_xfered = 0
              /\ host.mrq => host.data

\* DMA is available but the single block is below the threshold: the read
\* went by PIO, the interrupt handler finished it and it is handed back with
\* 512 bytes and no error
C11_Witness ==
    /\ PioReadClean /\ host.have_dma /\ mrq.blocks = 1
    /\ ctx.task = "done" /\ hw.rec.fd.by = "irq"
    /\ mrq.bytes_xfered = 512 /\ host.blocks = 0

\* C12: a scatter-gather list that the DMA backend mapped for the data of a
\* request is unmapped exactly once, and before the request is handed to
\* mmc_request_done, whichever path completes the request.
C12_UnmappedBeforeCompletion ==
    /\ hw.rec.unmaps <= 1
    /\ (ctx.task = "done" /\ hw.rec.maps > 0) =>
          /\ hw.rec.unmaps = hw.rec.maps
          /\ ~hw.mapped

\* the step starts the DMA backend: the list is mapped or a descriptor queued
DmaStarted ==
    hw'.rec.maps > hw.rec.maps \/ hw'.dma_cb > hw.dma_cb

\* C13: shared host state is read and written, and the DMA backend started,
\* only by a context that holds host->lock; in particular the DMA start that
\* bcm2835_mmc_request makes for the main command is not made by the part of
\* the function that runs after spin_unlock_irqrestore.
C13_DmaStartUnderLock ==
    [][DmaStarted => ctx.req /= "unlocked"]_vars

\* C14: finish_data is never run for a request while its main command is
\* still the current command waiting for its response, whether the data goes
\* by PIO or by DMA and whether the data-end interrupt, the DMA callback or a
\* data error interrupt leads to it.
C14_CommandBeforeData ==
    hw.rec.fd.by \in {"irq", "dma"} => ~hw.rec.fd.cmd_pending

\* host->data is set only with a request active, for the data of its main
\* command, prepared and not finished; with no request active host->cmd and
\* host->data are NULL
DataPointerLive ==
    /\ host.data =>
          /\ host.mrq /\ mrq.data
          /\ <<"cmd", "BLOCK_COUNT">> \in hw.rec.wr
          /\ hw.rec.fd.by = "no"
    /\ ~host.mrq => (host.cmd = "NULL" /\ ~host.data)

\* C15 as stated: with the lock free, host->cmd is set only with a request
\* active, for a command that was written to SDHCI_COMMAND and has neither
\* its response nor an error handled yet; host->data as above.
C15_PointersWhileOutstanding ==
    /\ host.lock = "free" /\ host.cmd /= "NULL" =>
          /\ host.mrq
          /\ <<host.cmd, "COMMAND">> \in hw.rec.wr
          /\ mrq.err[host.cmd] = NoErr
    /\ host.lock = "free" => DataPointerLive

\* C15 (amended): with the lock free, host->cmd is set only with a request
\* active, for a command whose dispatch passed the inhibit poll (the
\* argument register was written for it); it stays set, up to the tasklet,
\* for a command refused before the write of SDHCI_COMMAND or resolved by an
\* error interrupt or the watchdog; host->data as above.
C15_PointersWhileActive ==
    /\ host.lock = "free" /\ host.cmd /= "NULL" =>
          /\ host.mrq
          /\ <<host.cmd, "ARGUMENT">> \in hw.rec.wr
          /\ host.cmd \notin hw.rec.inhibit_failed
    /\ host.lock = "free" => DataPointerLive

\* the main command was sent and ended in an error interrupt; the lock is
\* free, the tasklet has not run yet and host->cmd still points at it
C15_Witness ==
    /\ host.lock = "free" /\ host.mrq /\ host.cmd = "cmd"
    /\ <<"cmd", "COMMAND">> \in hw.rec.wr
    /\ mrq.err.cmd = EILSEQ /\ host.tasklet

\* the backend the rule selects for the data of the request: DMA when the
\* host has its channels and the block count is above the threshold
DmaSelected == host.have_dma /\ mrq.blocks > host.barrier

\* C16: the backend is chosen when the data is prepared, DMA if and only if
\* the host has DMA channels and the block count is above the threshold; the
\* choice stands while the data is in flight, and the interrupt handler, the
\* DMA start and the DMA callback act on it: PIO moves blocks only for data
\* that goes by PIO, the list is mapped, unmapped and the data finished by
\* the DMA callback only for data that goes by DMA.
C16_BackendSelection ==
    /\ host.data => (host.use_dma <=> DmaSelected)
    /\ (host.data /\ host.blocks < mrq.blocks) => ~DmaSelected
    /\ hw.rec.maps > 0 => DmaSelected
    /\ hw.rec.unmaps > 0 => DmaSelected
    /\ hw.rec.fd.by = "dma" => DmaSelected

\* command c was polled for / the bits its dispatch has to wait for
Polled(c) == \E b \in InhibitBits : <<c, b>> \in hw.rec.poll
WaitsForData(c) ==
    c /= "stop" /\ ((c = "cmd" /\ mrq.data) \/ RspBusy(mrq.flags[c]))

\* C20 as stated: the mask polled before a dispatch has command-inhibit, and
\* data-inhibit for every command but the stop command of the data.
C20_DataInhibitButStop ==
    \A c \in Cmds : Polled(c) =>
        /\ <<c, "CMD_INHIBIT">> \in hw.rec.poll
        /\ <<c, "DATA_INHIBIT">> \in hw.rec.poll <=> c /= "stop"

\* C20 (amended): the mask has command-inhibit always, and data-inhibit if
\* and only if the command has data or busy signaling and is not the stop
\* command of the request's data; the dispatch fails if and only if a bit of
\* that mask stays set.
C20_InhibitMask ==
    \A c \in Cmds : Polled(c) =>
        /\ <<c, "CMD_INHIBIT">> \in hw.rec.poll
        /\ <<c, "DATA_INHIBIT">> \in hw.rec.poll <=> WaitsForData(c)
        /\ c \in hw.rec.inhibit_failed <=>
              \/ "CMD_INHIBIT" \in disp.ps[c]
              \/ "DATA_INHIBIT" \in disp.ps[c] /\ WaitsForData(c)

\* the stop command, which has busy signaling, was written to SDHCI_COMMAND
\* although data-inhibit stayed set during its poll
C20_Witness ==
    /\ Polled("stop") /\ RspBusy(mrq.flags["stop"])
    /\ disp.ps["stop"] = {"DATA_INHIBIT"}
    /\ <<"stop", "COMMAND">> \in hw.rec.wr

\* the transfer mode was written for the data command of the request
DataModeWritten == mrq.data /\ <<"cmd", "TRANSFER_MODE">> \in hw.rec.wr

\* C17 as stated: the value written has the DMA bit if and only if the DMA
\* backend was selected for the data (host->use_dma), and the read bit if
\* and only if the data is a read.
C17_DmaBitIffBackend ==
    DataModeWritten =>
        /\ "DMA" \in hw.rec.mode <=> host.use_dma
        /\ "READ" \in hw.rec.mode <=> mrq.read

\* C17 (amended): the DMA bit follows SDHCI_REQ_USE_DMA in host->flags, a
\* flag this driver never sets: the bit is clear for PIO and for DMA alike;
\* the read bit is set if and only if the data is a read.
C17_DmaBitNeverSet ==
    DataModeWritten =>
        /\ "DMA" \in hw.rec.mode <=> "REQ_USE_DMA" \in host.flags
        /\ "DMA" \notin hw.rec.mode
        /\ "READ" \in hw.rec.mode <=> mrq.read

\* a read above the threshold was dispatched with the DMA backend selected,
\* its list is mapped, and the value written has the read bit alone of the two
C17_Witness ==
    /\ DataModeWritten /\ host.data /\ host.use_dma /\ hw.rec.maps = 1
    /\ mrq.read /\ "READ" \in hw.rec.mode /\ "DMA" \notin hw.rec.mode

\* the steps of the last dispatch, in order, and the positions of a step
DispatchSteps == hw.rec.seq.ev
StepAt(e) == {i \in 1..Len(DispatchSteps) : DispatchSteps[i] = e}
Before(a, b) == \A i \in StepAt(a), j \in StepAt(b) : i < j

\* the last dispatch wrote SDHCI_COMMAND
Dispatched == StepAt("COMMAND") /= {}

\* C18: in a dispatch that writes the command register, the block size, the
\* block count and the backend selection (for a data command) come before
\* the argument, the argument before the transfer mode, the transfer mode
\* before the command register; the command register is written once, as
\* the last step, after the watchdog was armed and host->cmd set; no command
\* of a request is written to it twice.
C18_DispatchOrder ==
    /\ hw.rec.rewr = {}
    /\ Dispatched =>
          /\ StepAt("COMMAND") = {Len(DispatchSteps)}
          /\ \A e \in {"mod_timer", "host->cmd", "ARGUMENT", "TRANSFER_MODE"} :
                 Cardinality(StepAt(e)) = 1
          /\ Before("mod_timer", "COMMAND") /\ Before("host->cmd", "COMMAND")
          /\ Before("ARGUMENT", "TRANSFER_MODE")
          /\ Before("TRANSFER_MODE", "COMMAND")
          /\ \A e \in {"BLOCK_SIZE", "BLOCK_COUNT", "host->use_dma"} :
                 /\ Cardinality(StepAt(e)) =
                        IF CmdData(Cur, hw.rec.seq.c) THEN 1 ELSE 0
                 /\ Before(e, "ARGUMENT")
          /\ <<hw.rec.seq.c, "COMMAND">> \in hw.rec.wr

\* the main command of a multi-block transfer with a set-block-count command
\* was dispatched: every step of the order is there, ARGUMENT2 included
C18_Witness ==
    /\ Dispatched /\ hw.rec.seq.c = "cmd" /\ mrq.data /\ host.cmd = "cmd"
    /\ \A e \in {"TIMEOUT_CONTROL", "host->use_dma", "BLOCK_SIZE",
                  "BLOCK_COUNT", "ARGUMENT", "ARGUMENT2", "TRANSFER_MODE"} :
           StepAt(e) /= {}

\* the last dispatch that passed the inhibit poll was of command c, which
\* asks for a 136-bit response and busy signaling
Refused(c) ==
    hw.rec.seq.c = c /\ Rsp136(mrq.flags[c]) /\ RspBusy(mrq.flags[c])

\* C19 as stated: such a command has the error -EINVAL, the request is on its
\* way to completion, and none of ARGUMENT, TRANSFER_MODE and COMMAND was
\* written for it.
C19_RejectedBeforeWrites ==
    \A c \in Cmds : Refused(c) =>
        /\ mrq.err[c] = EINVAL
        /\ host.tasklet \/ ctx.task \in {"run", "done"}
        /\ \A r \in {"ARGUMENT", "TRANSFER_MODE", "COMMAND"} :
               <<c, r>> \notin hw.rec.wr

\* what stays true of a refused command up to the completion
RefusedState(c) ==
    /\ host.tasklet \/ ctx.task \in {"run", "done"}
    /\ <<c, "COMMAND">> \notin hw.rec.wr /\ ~Dispatched
    /\ <<c, "ARGUMENT">> \in hw.rec.wr
    /\ <<c, "TRANSFER_MODE">> \in hw.rec.wr
    /\ DispatchSteps[Len(DispatchSteps)] = "TRANSFER_MODE"
    /\ StepAt("mod_timer") /= {} /\ StepAt("host->cmd") /= {}
    /\ CmdData(Cur, c) =>
           \A r \in {"BLOCK_SIZE", "BLOCK_COUNT"} : <<c, r>> \in hw.rec.wr

\* C19 (amended): the refusal sets the error of such a command to -EINVAL
\* and schedules the completion, and COMMAND is never written for it; the
\* refusal is the last step of the dispatch, after the watchdog was armed,
\* host->cmd set, the data prepared and ARGUMENT and TRANSFER_MODE written.
\* (Until the completion runs, an interrupt, the watchdog or the removal of
\* the device may still assign the error of the command.)
C19_RejectedBeforeCommand ==
    [][\A c \in Cmds : Refused(c)' =>
          /\ RefusedState(c)'
          /\ ~Refused(c) => mrq'.err[c] = EINVAL /\ host'.tasklet]_vars

\* a read whose command asks for the refused response shape is handed back
\* with -EINVAL, its argument and transfer mode written, COMMAND not
C19_Witness ==
    /\ Refused("cmd") /\ mrq.data /\ ctx.task = "done"
    /\ mrq.err.cmd = EINVAL
    /\ {<<"cmd", "ARGUMENT">>, <<"cmd", "TRANSFER_MODE">>} \subseteq hw.rec.wr
    /\ <<"cmd", "COMMAND">> \notin hw.rec.wr

\* the step is a call of bcm2835_mmc_request: a new request is attached
Submitting == mrq'.id /= mrq.id

\* the step ran the inhibit poll of the dispatch of c
PollRan(c) ==
    \E b \in InhibitBits :
        /\ <<c, b>> \in hw'.rec.poll
        /\ Submitting \/ <<c, b>> \notin hw.rec.poll

\* C21 as stated: the inhibit poll runs in the context of the submitting
\* caller only, the polls of the stop command and of a chained main command
\* included.
C21_PollInCallerContext ==
    [][\A c \in Cmds : PollRan(c) => Submitting]_vars

\* C21 (amended): the poll of the first command of a request runs in the
\* submitting caller's context; the poll of the stop command runs inside
\* finish_data, in the context that completes the data (interrupt handler,
\* DMA callback or watchdog timer), never in the caller's; no command is
\* dispatched without the poll.
C21_PollInDispatchContext ==
    [][\A c \in Cmds :
          /\ PollRan(c) =>
                /\ Submitting <=> c /= "stop"
                /\ c = "stop" => hw'.rec.fd.by \in {"irq", "dma", "timer", "cmd"}
          /\ (hw'.rec.seq.c = c /\ hw'.rec.seq /= hw.rec.seq) =>
                \E b \in InhibitBits : <<c, b>> \in hw'.rec.poll]_vars

\* the stop command was polled for and dispatched by the data completion
\* that the interrupt handler ran
C21_Witness ==
    /\ Polled("stop") /\ hw.rec.fd.by = "irq"
    /\ <<"stop", "COMMAND">> \in hw.rec.wr /\ host.cmd = "stop"

\* finish_command ran the data completion that data_irq had put off
EarlyDataFinished == hw.rec.fd.by = "cmd"

\* SDHCI_COMMAND was written for the stop command
StopSent == <<"stop", "COMMAND">> \in hw.rec.wr

\* C22: when the response of the main command comes after its data ended and
\* finish_command runs the data completion, then, if the stop command was
\* dispatched, it is the current command and the completion is neither
\* scheduled nor run until the stop command has its response or error; if
\* it was not, the request is on its way to completion.  (The removal of the
\* device, which completes whatever is active, is left aside.)
C22_EarlyDataThenStop ==
    (EarlyDataFinished /\ "DEVICE_DEAD" \notin host.flags) =>
        IF StopSent
        THEN ~hw.rec.stop_resolved =>
                 /\ host.cmd = "stop"
                 /\ ~host.tasklet /\ ctx.task = "idle"
        ELSE host.tasklet \/ ctx.task \in {"run", "done"}

\* C26: no dispatch finds host->cmd set: WARN_ON(host->cmd) at the entry of
\* send_command never fires.
C26_NoCurrentCommandAtDispatch == hw.rec.warn_cmd = {}

\* what holds of the card interrupt in every state: the flag the threaded
\* handler tests is the caller's last call; after a disable the bit stays
\* clear in the enable mask, whatever the thread does; once the handoff has
\* run to its end after an enable (no wake-up pending, the thread idle), the
\* bit is set again
SdioState ==
    LET dead == "DEVICE_DEAD" \in host.flags
    IN /\ ("SDIO_IRQ_ENABLED" \in host.flags) <=> sdio.last
       /\ (~sdio.last /\ ~dead) => "CARD_INT" \notin host.ier
       /\ (sdio.last /\ ~dead /\ ~sdio.wake /\ sdio.pc = "idle"
              /\ ~host.thread_isr) => "CARD_INT" \in host.ier
       /\ sdio.runs <= sdio.irqs

C24_TransferModeThroughShadow ==
    [][reg'.ops > reg.ops =>
        LET r == reg'.last.reg
            val == reg'.last.val
        IN /\ r = "TRANSFER_MODE" =>
                /\ reg'.last.wr = <<>>
                /\ reg'.io = reg.io
                /\ reg'.shadow.lo = val
           /\ r /= "TRANSFER_MODE" => reg'.shadow = reg.shadow
           /\ r = "COMMAND" =>
                /\ reg'.last.rd = <<>>
                /\ reg'.last.wr =
                       << <<12, [hi |-> val, lo |-> reg.shadow.lo]>> >>
                /\ reg'.io[12].hi = val
                /\ reg'.io[12].lo = reg'.shadow.lo
                /\ reg'.io[4] = reg.io[4]
      ]_vars

\* a command was written after a transfer mode that differs from the lower
\* half the hardware word held before
C24_Witness ==
    /\ reg.pc = "on" /\ reg.last.reg = "COMMAND" /\ reg.last.val = 58
    /\ reg.shadow = [hi |-> 65535, lo |-> 58]
    /\ reg.io[12] = [hi |-> 58, lo |-> 58]
    /\ reg.ops = 2


C27_StaleHandlersLeaveRequest ==
    [][/\ (ctx.timer /\ ~ctx'.timer /\ "timer" \in hw.stale) =>
              /\ mrq' = mrq
              /\ host'.tasklet = host.tasklet
              /\ host'.data = host.data /\ host'.cmd = host.cmd
       /\ (ctx.task = "run" /\ ctx'.task /= "run" /\ "run" \in hw.stale
              /\ ~host.tasklet) =>
              /\ hw'.deliver = 0
              /\ host'.mrq = host.mrq
      ]_vars

\* C28: a callback of the DMA engine that was pending when the request was
\* submitted neither unmaps nor finishes the data of the request.
C28_StaleCallbackLeavesData ==
    [][(hw'.dma_cb < hw.dma_cb /\ "dma" \in hw.stale) =>
           /\ hw'.rec.unmaps = hw.rec.unmaps
           /\ hw'.rec.fd = hw.rec.fd
           /\ host'.data = host.data
           /\ mrq' = mrq
      ]_vars


\* C29: bcm2835_mmc_transfer_dma is entered only with the request still
\* attached, its data current (WARN_ON(!host->data)) and prepared with DMA
\* by a dispatch of its command that went through to the write of the
\* command register: not after an inhibit-poll failure, not after the
\* refusal of the response shape, not after the tasklet has detached it.
C29_DmaStartOnPreparedData ==
    [][(ctx.req = "unlocked" /\ ctx'.req = "idle") =>
           /\ host.mrq /\ host.data /\ host.use_dma
           /\ hw.rec.seq.c = "cmd"
           /\ \E i \in 1..Len(hw.rec.seq.ev) :
                  hw.rec.seq.ev[i] = "host->use_dma"
           /\ "cmd" \notin hw.rec.inhibit_failed
           /\ <<"cmd", "COMMAND">> \in hw.rec.wr
      ]_vars


\* C30: for data moved by PIO, host->blocks is the block count of the data
\* when the dispatch has prepared it, never grows and never leaves
\* 0..blocks afterwards, and is zero once the data has been finished
\* without error, i.e. when bytes_xfered reports blksz * blocks.
C30_PioBlocksCounted ==
    [][/\ (mrq'.id /= mrq.id /\ host'.data /\ ~host'.use_dma) =>
              host'.blocks = mrq'.blocks
       /\ (mrq'.id = mrq.id /\ mrq.data /\ ~host.use_dma) =>
              host'.blocks \in 0..host.blocks
       /\ (mrq'.data /\ ~host'.use_dma /\ hw'.rec.fd.by /= "no"
              /\ mrq'.err.data = NoErr) =>
              /\ mrq'.bytes_xfered = mrq'.blksz * mrq'.blocks
              /\ host'.blocks = 0
      ]_vars

==========================================================================
